---- MODULE Spec2Model ----
(***************************************************************************)
(* A model of the BSFC optimisation pipeline of nipatiitti/baijerilainen:  *)
(* RPM binning (rpm_binning.py), the Gaussian-process wrapper              *)
(* (gp_model.py), the Bayesian optimiser (optimizer.py) and the            *)
(* orchestrating script (main.py).                                         *)
(*                                                                         *)
(* Numbers.  Python floats are modelled in fixed point: a float value v    *)
(* is the integer v * Unit.  Raw sample columns are small integers (RPM in *)
(* rpm, lambda in tenths, timing in degrees, BSFC in g/kWh).  An optional  *)
(* value (Python None or a value) is a sequence of length 0 or 1.          *)
(***************************************************************************)
EXTENDS Integers, Sequences, FiniteSets, TLC

VARIABLES
    pc,            \* position of the running script / caller
    data,          \* the loaded samples: sequence of [rpm, lam, timing, bsfc]
    bin_width,     \* bin_by_rpm argument
    rpm_min,       \* bin_by_rpm argument (optional)
    rpm_max,       \* bin_by_rpm argument (optional)
    min_samples,   \* bin_by_rpm argument
    binned,        \* optional BinnedData returned by bin_by_rpm
    is_fitted,     \* BSFCGaussianProcess.is_fitted
    X_train,       \* BSFCGaussianProcess.X_train (optional)
    y_train,       \* BSFCGaussianProcess.y_train (optional)
    X_scaler,      \* fitted parameters of X_scaler (optional)
    y_scaler,      \* fitted parameters of y_scaler (optional)
    gp_fitted,     \* whether the wrapped regressor self.gp has been fitted
    lambda_bounds, \* BSFCOptimizer.lambda_bounds (optional until constructed)
    timing_bounds, \* BSFCOptimizer.timing_bounds (optional until constructed)
    n_suggestions, \* BSFCOptimizer.n_suggestions
    args,          \* inputs of the last method call, with what its collaborators answered
    ret,           \* outcome of the last method call: what it raised or returned
    summary,       \* main: the dictionary of aggregate_binned_data (optional)
    printed,       \* main: the ERROR lines printed so far
    exit_code,     \* main: the value main returned (optional)
    best_bsfc_per_rpm, \* optimize: local, RPM centre -> mean BSFC
    overall_best,  \* optimize: local (optional)
    optimal_map,   \* optimize: local, RPM centre -> optimum
    suggestions,   \* optimize: local (optional)
    result         \* main: the OptimizationResult returned by optimize (optional)

binVars == <<data, bin_width, rpm_min, rpm_max, min_samples, binned>>

gpVars == <<is_fitted, X_train, y_train, X_scaler, y_scaler, gp_fitted>>

optVars == <<lambda_bounds, timing_bounds, n_suggestions>>

mainVars == <<summary, printed, exit_code, best_bsfc_per_rpm, overall_best,
              optimal_map, suggestions, result>>

vars == <<pc, binVars, gpVars, optVars, args, ret, mainVars>>

----------------------------------------------------------------------------
(* Bounds and input domains *)

\* longest sample array explored
MaxSamples == 5

\* fixed-point denominator of a float: one unit is a hundredth
Unit == 10 * 10

None == <<>>

Some(v) == <<v>>

IsNone(o) == o = <<>>

\* RPM readings offered to the loader
RpmValues == {1000, 1010, 1040, 1060, 1090, 1100}

\* the two operating points a reading is taken at: (lambda, timing, bsfc)
Variants == {<<9, 20, 250>>, <<11, 30, 300>>}

RawSamples ==
    { [rpm |-> r, lam |-> v[1], timing |-> v[2], bsfc |-> v[3]] :
        r \in RpmValues, v \in Variants }

BinWidths == {50, 25}

MinSamplesChoices == {1, 2, 3}

RpmMinChoices == {None, Some(1010)}

RpmMaxChoices == {None, Some(1070)}

----------------------------------------------------------------------------
(* numpy helpers *)

RECURSIVE SumSeq(_)
SumSeq(s) == IF s = <<>> THEN 0 ELSE Head(s) + SumSeq(Tail(s))

\* the first element instead of the least
SeqFirst(s) == s[1]

SeqMin(s) == CHOOSE x \in {s[i] : i \in DOMAIN s} : \A j \in DOMAIN s : x <= s[j]

SeqMax(s) == CHOOSE x \in {s[i] : i \in DOMAIN s} : \A j \in DOMAIN s : x >= s[j]

\* np.floor(x / w) * w for integers x, w > 0
FloorTo(x, w) == (x \div w) * w

\* np.ceil(x / w) * w for integers x, w > 0
CeilTo(x, w) == -(((-x) \div w) * w)

\* np.arange(start, stop, step): start, start+step, ... strictly below stop
ARange(start, stop, step) ==
    LET n == IF stop > start THEN (stop - start + step - 1) \div step ELSE 0
    IN  [k \in 1..n |-> start + (k - 1) * step]

\* np.digitize(x, edges) for increasing edges: the number of edges <= x,
\* i.e. the 1-based number of the bin edges[k] <= x < edges[k+1]
\* (Python's "- 1" turns it into the 0-based index used by enumerate)
Digitize(x, edges) == Cardinality({k \in DOMAIN edges : edges[k] <= x})

\* the float array holding the integers of vals
AsFloat(vals) == [i \in DOMAIN vals |-> vals[i] * Unit]

\* ndarray.mean() of a non-empty float array
Mean(vals) == SumSeq(vals) \div Len(vals)

RECURSIVE ISqrtFrom(_, _, _)
ISqrtFrom(v, lo, hi) ==
    IF lo >= hi THEN lo
    ELSE LET mid == (lo + hi + 1) \div 2
         IN  IF mid * mid <= v THEN ISqrtFrom(v, mid, hi)
             ELSE ISqrtFrom(v, lo, mid - 1)

\* np.sqrt on a fixed-point variance (largest r with r*r <= v)
ISqrt(v) == ISqrtFrom(v, 0, 40000)

\* ndarray.std() of a non-empty float array: population standard deviation
Std(vals) ==
    LET m == Mean(vals)
        devsq == [i \in DOMAIN vals |-> (vals[i] - m) * (vals[i] - m)]
    IN  ISqrt(SumSeq(devsq) \div Len(vals))

----------------------------------------------------------------------------
(* rpm_binning.bin_by_rpm *)

Column(d, name) == [i \in DOMAIN d |-> d[i][name]]

\* lines 55-58: a column of the data dictionary (a float array)
DataColumn(d, name) == AsFloat(Column(d, name))

\* lines 61-62
AutoRpmMin(d, bw, rmin) ==
    IF IsNone(rmin) THEN FloorTo(SeqMin(Column(d, "rpm")), bw) ELSE rmin[1]

\* lines 63-64
AutoRpmMax(d, bw, rmax) ==
    IF IsNone(rmax) THEN CeilTo(SeqMax(Column(d, "rpm")), bw) ELSE rmax[1]

\* line 67
BinEdges(d, bw, rmin, rmax) ==
    ARange(AutoRpmMin(d, bw, rmin), AutoRpmMax(d, bw, rmax) + bw, bw)

\* line 68: (bin_edges[:-1] + bin_edges[1:]) / 2, as fixed-point floats
BinCenters(edges) ==
    IF Len(edges) = 0 THEN <<>>
    ELSE [k \in 1..(Len(edges) - 1) |-> ((edges[k] + edges[k + 1]) * Unit) \div 2]

\* line 71 (1-based bin number of every sample)
BinIndices(d, edges) == [i \in DOMAIN d |-> Digitize(d[i].rpm, edges)]

\* line 82: the samples selected by mask = (bin_indices == i)
Masked(d, edges, k) ==
    SelectSeq(d, LAMBDA s : Digitize(s.rpm, edges) = k)

\* a threshold test that is off by one
KeepStrict(n_samples, minS) == n_samples > minS

\* line 85: the bins the loop keeps
Keep(n_samples, minS) == n_samples >= minS

\* a std without the single-sample fallback: ndarray.std() of one value
BinStdNoFallback(vals) == Std(vals)

\* line 90
BinStd(vals) == IF Len(vals) > 1 THEN Std(vals) ELSE 50 * Unit

\* lines 81-91: the loop over enumerate(bin_centers); returns the retained
\* bins in loop order, one record of appended values per bin
RECURSIVE BinLoop(_, _, _, _, _)
BinLoop(d, edges, centers, minS, k) ==
    IF k > Len(centers) THEN <<>>
    ELSE LET sel == Masked(d, edges, k)
             n_samples == Len(sel)
             rest == BinLoop(d, edges, centers, minS, k + 1)
         IN  IF Keep(n_samples, minS)
             THEN <<[center |-> centers[k],
                     lambda_mean |-> Mean(DataColumn(sel, "lam")),
                     timing_mean |-> Mean(DataColumn(sel, "timing")),
                     bsfc_mean |-> Mean(DataColumn(sel, "bsfc")),
                     bsfc_std |-> BinStd(DataColumn(sel, "bsfc")),
                     count |-> n_samples]>> \o rest
             ELSE rest

\* a column_stack with the first two columns exchanged
ColumnStackSwapped(a, b, c) == [i \in DOMAIN a |-> <<b[i], a[i], c[i]>>]

\* line 102: np.column_stack([lambda_means, timing_means, rpm_centers])
ColumnStack(a, b, c) == [i \in DOMAIN a |-> <<a[i], b[i], c[i]>>]

\* lines 55-115
BinByRpm(d, bw, rmin, rmax, minS) ==
    LET edges == BinEdges(d, bw, rmin, rmax)
        kept == BinLoop(d, edges, BinCenters(edges), minS, 1)
        rpm_centers == Column(kept, "center")
        lambda_means == Column(kept, "lambda_mean")
        timing_means == Column(kept, "timing_mean")
        bsfc_means == Column(kept, "bsfc_mean")
        bsfc_stds == Column(kept, "bsfc_std")
        counts == Column(kept, "count")
    IN  [rpm_centers |-> rpm_centers,
         lambda_values |-> lambda_means,
         timing_values |-> timing_means,
         bsfc_values |-> bsfc_means,
         bsfc_std |-> bsfc_stds,
         sample_counts |-> counts,
         X |-> ColumnStack(lambda_means, timing_means, rpm_centers),
         y |-> bsfc_means,
         y_std |-> bsfc_stds]

----------------------------------------------------------------------------
(* The binning specification: a caller loads samples, then calls bin_by_rpm *)

\* samples are appended in nondecreasing (rpm, lam) order: the aggregation
\* selects by mask and is independent of the order of the rows, so every
\* multiset of samples is explored once
InOrder(d, s) ==
    IF d = <<>> THEN TRUE
    ELSE \/ d[Len(d)].rpm < s.rpm
         \/ d[Len(d)].rpm = s.rpm /\ d[Len(d)].lam <= s.lam

\* no call has been made yet
NoCall == [op |-> "none", raised |-> "", value |-> <<>>]

\* bin_by_rpm's defaults (lines 33-36), before any call
BinIdle ==
    /\ data = <<>>
    /\ bin_width = 50
    /\ rpm_min = None
    /\ rpm_max = None
    /\ min_samples = 3
    /\ binned = None

\* gp_model.py lines 27-47: BSFCGaussianProcess.__init__
GpConstructed ==
    /\ is_fitted = FALSE
    /\ X_train = None
    /\ y_train = None
    /\ X_scaler = None
    /\ y_scaler = None
    /\ gp_fitted = FALSE

\* no BSFCOptimizer exists yet
OptIdle ==
    /\ lambda_bounds = None
    /\ timing_bounds = None
    /\ n_suggestions = 0

NoArgs == <<>>

\* the empty dictionary
EmptyDict == <<>>

\* main has not run
MainIdle ==
    /\ summary = None
    /\ printed = <<>>
    /\ exit_code = None
    /\ best_bsfc_per_rpm = EmptyDict
    /\ overall_best = None
    /\ optimal_map = EmptyDict
    /\ suggestions = None
    /\ result = None

BinInit ==
    /\ pc = "load"
    /\ BinIdle
    /\ GpConstructed
    /\ OptIdle
    /\ args = NoArgs
    /\ ret = NoCall
    /\ MainIdle

LoadSample ==
    /\ pc = "load"
    /\ Len(data) < MaxSamples
    /\ \E s \in RawSamples :
          /\ InOrder(data, s)
          /\ data' = Append(data, s)
    /\ UNCHANGED <<pc, bin_width, rpm_min, rpm_max, min_samples, binned>>
    /\ UNCHANGED <<gpVars, optVars, args, ret, mainVars>>

CallBinByRpm ==
    /\ pc = "load"
    /\ data # <<>>
    /\ \E bw \in BinWidths, rmin \in RpmMinChoices, rmax \in RpmMaxChoices,
          minS \in MinSamplesChoices :
          /\ bin_width' = bw
          /\ rpm_min' = rmin
          /\ rpm_max' = rmax
          /\ min_samples' = minS
          /\ binned' = Some(BinByRpm(data, bw, rmin, rmax, minS))
    /\ pc' = "binned"
    /\ UNCHANGED <<data, gpVars, optVars, args, ret, mainVars>>

BinNext == LoadSample \/ CallBinByRpm

SpecBin == BinInit /\ [][BinNext]_vars

----------------------------------------------------------------------------
(* Properties of bin_by_rpm *)

\* the range bin_by_rpm works with (given, or derived from the data)
EffRpmMin == AutoRpmMin(data, bin_width, rpm_min)

EffRpmMax == AutoRpmMax(data, bin_width, rpm_max)

Edges == BinEdges(data, bin_width, rpm_min, rpm_max)

Centers == BinCenters(Edges)

\* the samples whose RPM lies in the interval of width bin_width around
\* centre c: c - bin_width/2 <= rpm < c + bin_width/2
OwnSamples(c) ==
    SelectSeq(data, LAMBDA s :
        /\ 2 * s.rpm * Unit >= 2 * c - bin_width * Unit
        /\ 2 * s.rpm * Unit < 2 * c + bin_width * Unit)

\* m is the fixed-point mean of vals
IsMean(m, vals) ==
    /\ m * Len(vals) <= SumSeq(vals) * Unit
    /\ SumSeq(vals) * Unit < (m + 1) * Len(vals)

InRange(s) == EffRpmMin <= s.rpm /\ s.rpm <= EffRpmMax

\* the samples bin_by_rpm places in some bin
Assigned == {i \in DOMAIN data : BinIndices(data, Edges)[i] \in DOMAIN Centers}

ScenarioA ==
    /\ Column(data, "rpm") = <<1000, 1010, 1040, 1060, 1090>>
    /\ bin_width = 50
    /\ min_samples = 3
    /\ rpm_min = None
    /\ rpm_max = None

\* C1: a bin is in the output iff its own interval holds at least
\* min_samples samples, every retained count is the count of the bin's own
\* interval, and scenario A retains only the bin 1000-1050 with count 3
C1_RetainedIffThreshold ==
    pc = "binned" =>
        LET b == binned[1]
        IN  /\ \A k \in DOMAIN Centers :
                  (\E j \in DOMAIN b.rpm_centers : b.rpm_centers[j] = Centers[k])
                      <=> Len(OwnSamples(Centers[k])) >= min_samples
            /\ \A j \in DOMAIN b.rpm_centers :
                  /\ b.sample_counts[j] = Len(OwnSamples(b.rpm_centers[j]))
                  /\ \E k \in DOMAIN Centers : b.rpm_centers[j] = Centers[k]
            /\ ScenarioA =>
                  /\ b.rpm_centers = <<1025 * Unit>>
                  /\ b.sample_counts = <<3>>

\* scenario A has been binned: one bin retained, one populated bin dropped
C1_Witness ==
    /\ pc = "binned"
    /\ ScenarioA
    /\ Len(binned[1].rpm_centers) = 1
    /\ Len(OwnSamples(1075 * Unit)) = 2

\* C2: every sample with rpm_min <= RPM <= rpm_max is assigned to a bin, and
\* retained counts + below-threshold counts + out-of-range counts = total
C2_PartitionOfInRange ==
    pc = "binned" =>
        LET b == binned[1]
            below == {i \in Assigned :
                         \A j \in DOMAIN b.rpm_centers :
                             b.rpm_centers[j] # Centers[BinIndices(data, Edges)[i]]}
            outOfRange == {i \in DOMAIN data : ~InRange(data[i])}
        IN  /\ \A i \in DOMAIN data : InRange(data[i]) => i \in Assigned
            /\ SumSeq(b.sample_counts) + Cardinality(below)
                   + Cardinality(outOfRange) = Len(data)

\* C3: a sample with RPM outside [rpm_min, rpm_max] is counted in no bin
C3_OutOfRangeDropped ==
    pc = "binned" =>
        \A i \in DOMAIN data : ~InRange(data[i]) => i \notin Assigned

\* C4: the arrays of a BinnedData have one length, and row i of X, y[i],
\* bsfc_values[i], sample_counts[i] and bsfc_std[i] all describe the bin whose
\* centre is rpm_centers[i]
C4_IndexAlignment ==
    pc = "binned" =>
        LET b == binned[1]
            n == Len(b.rpm_centers)
        IN  /\ Len(b.X) = n /\ Len(b.y) = n /\ Len(b.y_std) = n
            /\ Len(b.lambda_values) = n /\ Len(b.timing_values) = n
            /\ Len(b.bsfc_values) = n /\ Len(b.bsfc_std) = n
            /\ Len(b.sample_counts) = n
            /\ \A i \in 1..n :
                  LET own == OwnSamples(b.rpm_centers[i])
                  IN  /\ own # <<>>
                      /\ Len(b.X[i]) = 3
                      /\ IsMean(b.X[i][1], Column(own, "lam"))
                      /\ IsMean(b.X[i][2], Column(own, "timing"))
                      /\ b.X[i][3] = b.rpm_centers[i]
                      /\ IsMean(b.y[i], Column(own, "bsfc"))
                      /\ b.bsfc_values[i] = b.y[i]
                      /\ b.sample_counts[i] = Len(own)
                      /\ b.bsfc_std[i] = BinStd(DataColumn(own, "bsfc"))
                      /\ b.y_std[i] = b.bsfc_std[i]

\* two retained bins whose mean lambda and mean BSFC differ
C4_Witness ==
    /\ pc = "binned"
    /\ Len(binned[1].rpm_centers) >= 2
    /\ binned[1].X[1][1] # binned[1].X[2][1]
    /\ binned[1].y[1] # binned[1].y[2]
    /\ binned[1].sample_counts[1] # binned[1].sample_counts[2]

\* s is the fixed-point population standard deviation of vals
IsStd(s, vals) ==
    LET m == SumSeq(vals) \div Len(vals)
        V == SumSeq([i \in DOMAIN vals |-> (vals[i] - m) * (vals[i] - m)]) \div Len(vals)
    IN  s >= 0 /\ s * s <= V /\ V < (s + 1) * (s + 1)

\* C11: a retained bin of exactly one sample gets the fallback std 50 (in
\* bsfc_std and in y_std), not zero; a retained bin of two or more samples
\* gets the standard deviation of its own BSFC samples
C11_SingleSampleStdFallback ==
    pc = "binned" =>
        LET b == binned[1]
        IN  \A i \in DOMAIN b.rpm_centers :
                LET own == OwnSamples(b.rpm_centers[i])
                IN  /\ b.sample_counts[i] = 1 =>
                          /\ b.bsfc_std[i] = 50 * Unit
                          /\ b.y_std[i] = 50 * Unit
                    /\ b.sample_counts[i] >= 2 =>
                          /\ IsStd(b.bsfc_std[i], DataColumn(own, "bsfc"))
                          /\ b.y_std[i] = b.bsfc_std[i]

\* min_samples is 1 and the output holds a bin of one sample next to a bin
\* of two samples whose BSFC values differ
C11_Witness ==
    /\ pc = "binned"
    /\ min_samples = 1
    /\ \E i, j \in DOMAIN binned[1].rpm_centers :
          /\ binned[1].sample_counts[i] = 1
          /\ binned[1].bsfc_std[i] = 50 * Unit
          /\ binned[1].sample_counts[j] = 2
          /\ binned[1].bsfc_std[j] > 0

----------------------------------------------------------------------------
(* gp_model.BSFCGaussianProcess *)

\* column j of a 2-d array
ArrayColumn(X, j) == [i \in DOMAIN X |-> X[i][j]]

\* sklearn StandardScaler.fit on the columns of X: the mean and the standard
\* deviation of every column, a zero deviation being replaced by 1.0
ScalerFit(X, ncols) ==
    [mean |-> [j \in 1..ncols |-> Mean(ArrayColumn(X, j))],
     scale |-> [j \in 1..ncols |->
                   LET sd == Std(ArrayColumn(X, j))
                   IN  IF sd = 0 THEN Unit ELSE sd]]

\* y.reshape(-1, 1)
Reshape(y) == [i \in DOMAIN y |-> <<y[i]>>]

\* y_scaler.inverse_transform of a normalised mean (lines 98, 106)
InverseTransform(sc, mean_scaled) ==
    (mean_scaled * sc.scale[1]) \div Unit + sc.mean[1]

\* line 101: std_scaled * self.y_scaler.scale_[0]
ScaleStd(sc, std_scaled) == (std_scaled * sc.scale[1]) \div Unit

\* training sets handed to fit: rows of (lambda, timing, rpm) and targets
FitXs ==
    { <<<<900, 2000, 101250>>>>,
      <<<<900, 2000, 102500>>, <<1100, 3000, 107500>>>>,
      <<<<900, 2000, 102500>>, <<1100, 3000, 107500>>, <<1000, 2500, 112500>>>> }

FitYs == { <<26000>>, <<25000, 30000>>, <<25000, 30000, 27000>> }

\* query points handed to predict
PredictQueries ==
    { <<<<1000, 2500, 105000>>>>,
      <<<<900, 2000, 102500>>, <<1200, 3500, 110000>>>> }

\* what the fitted regressor answers at one normalised query point:
\* (posterior mean, posterior std) in normalised units
PosteriorChoices == { <<0, 100>>, <<-100, 50>>, <<150, 0>> }

\* lines 49-76.  The wrapped regressor's fit (line 69) rejects X and y of
\* different lengths with a ValueError, after lines 61-66 have run
Fit(X, y) ==
    /\ X_train' = Some(X)
    /\ y_train' = Some(y)
    /\ X_scaler' = Some(ScalerFit(X, 3))
    /\ y_scaler' = Some(ScalerFit(Reshape(y), 1))
    /\ IF Len(X) = Len(y)
       THEN /\ gp_fitted' = TRUE
            /\ is_fitted' = TRUE
            /\ ret' = [op |-> "fit", raised |-> "", value |-> <<>>]
       ELSE /\ UNCHANGED <<gp_fitted, is_fitted>>
            /\ ret' = [op |-> "fit", raised |-> "ValueError", value |-> <<>>]

\* a caller fits the model
GpFit ==
    /\ pc = "gp"
    /\ \E X \in FitXs, y \in FitYs : Fit(X, y)
    /\ UNCHANGED <<pc, binVars, optVars, args, mainVars>>

\* lines 89-107: the body of predict on a fitted model, with the regressor's
\* answers post[i] for the rows of X
PredictValue(X, return_std, post) ==
    IF return_std
    THEN <<[i \in DOMAIN X |-> InverseTransform(y_scaler[1], post[i][1])],
           Some([i \in DOMAIN X |-> ScaleStd(y_scaler[1], post[i][2])])>>
    ELSE <<[i \in DOMAIN X |-> InverseTransform(y_scaler[1], post[i][1])], None>>

\* lines 78-107
GpPredict ==
    /\ pc = "gp"
    /\ \E X \in PredictQueries, return_std \in BOOLEAN :
          IF ~is_fitted
          THEN ret' = [op |-> "predict", raised |-> "RuntimeError", value |-> <<>>]
          ELSE \E post \in [DOMAIN X -> PosteriorChoices] :
                  ret' = [op |-> "predict", raised |-> "",
                          value |-> PredictValue(X, return_std, post)]
    /\ UNCHANGED <<pc, binVars, gpVars, optVars, args, mainVars>>

\* np.linspace(a, b, n)
Linspace(a, b, n) ==
    [k \in 1..n |-> IF n = 1 THEN a ELSE a + ((k - 1) * (b - a)) \div (n - 1)]

\* lines 133-140: the flattened meshgrid, timing varying slowest
GridRows(lambda_vals, timing_vals, rpm) ==
    LET n == Len(lambda_vals)
    IN  [k \in 1..(n * n) |->
            <<lambda_vals[((k - 1) % n) + 1], timing_vals[((k - 1) \div n) + 1], rpm>>]

\* mean.reshape(n_points, n_points)
Reshape2(v, n) == [r \in 1..n |-> [c \in 1..n |-> v[(r - 1) * n + c]]]

\* grid sizes asked of predict_grid
GridPoints == 2

\* lines 109-150: predict_grid calls predict (line 142), which raises on an
\* unfitted model
GpPredictGrid ==
    /\ pc = "gp"
    /\ \E n_points \in 1..GridPoints, rpm \in {102500, 107500} :
          LET lambda_vals == Linspace(900, 1100, n_points)
              timing_vals == Linspace(2000, 3000, n_points)
              X_grid == GridRows(lambda_vals, timing_vals, rpm)
          IN  IF ~is_fitted
              THEN ret' = [op |-> "predict_grid", raised |-> "RuntimeError",
                           value |-> <<>>]
              ELSE \E post \in [DOMAIN X_grid -> PosteriorChoices] :
                      LET out == PredictValue(X_grid, TRUE, post)
                      IN  ret' = [op |-> "predict_grid", raised |-> "",
                                  value |-> [rpm |-> rpm,
                                             lambda |-> lambda_vals,
                                             timing |-> timing_vals,
                                             bsfc_mean |-> Reshape2(out[1], n_points),
                                             bsfc_std |-> Reshape2(out[2][1], n_points)]]
    /\ UNCHANGED <<pc, binVars, gpVars, optVars, args, mainVars>>

\* lines 162-166: min and max of every column of the cached training inputs
TrainingBounds(X) ==
    [lambda |-> <<SeqMin(ArrayColumn(X, 1)), SeqMax(ArrayColumn(X, 1))>>,
     timing |-> <<SeqMin(ArrayColumn(X, 2)), SeqMax(ArrayColumn(X, 2))>>,
     rpm |-> <<SeqMin(ArrayColumn(X, 3)), SeqMax(ArrayColumn(X, 3))>>]

\* lines 152-166: the guard tests X_train, not is_fitted
GpGetTrainingBounds ==
    /\ pc = "gp"
    /\ IF IsNone(X_train)
       THEN ret' = [op |-> "get_training_bounds", raised |-> "RuntimeError",
                    value |-> <<>>]
       ELSE ret' = [op |-> "get_training_bounds", raised |-> "",
                    value |-> TrainingBounds(X_train[1])]
    /\ UNCHANGED <<pc, binVars, gpVars, optVars, args, mainVars>>

GpInit ==
    /\ pc = "gp"
    /\ BinIdle
    /\ GpConstructed
    /\ OptIdle
    /\ args = NoArgs
    /\ ret = NoCall
    /\ MainIdle

GpNext == GpFit \/ GpPredict \/ GpPredictGrid \/ GpGetTrainingBounds

SpecGP == GpInit /\ [][GpNext]_vars

\* the methods that query the model
QueryOps == {"predict", "predict_grid", "get_training_bounds"}

\* C5: on a model whose fitted flag is false, predict, predict_grid and
\* get_training_bounds each raise and return nothing (none of the three
\* changes the flag, so the flag after the call is the flag at the call)
C5_UnfittedQueriesFail ==
    (~is_fitted /\ ret.op \in QueryOps) => ret.raised # ""

\* a query made on an unfitted model has returned
C5_Witness ==
    ~is_fitted /\ ret.op = "predict" /\ ret.raised = "RuntimeError"

----------------------------------------------------------------------------
(* optimizer.BSFCOptimizer *)

\* Bounds and the points drawn inside them are held in tenths of a unit, so
\* that the 10 % margin of line 65 is exact
Fine(v) == 10 * v

\* the training extent itself, without a margin
DerivedBoundsNoMargin(lo, hi) == <<Fine(lo), Fine(hi)>>

\* lines 64-66 and 71-73: (min - margin, max + margin), margin = (max - min) * 0.1
DerivedBounds(lo, hi) == <<Fine(lo) - (hi - lo), Fine(hi) + (hi - lo)>>

\* lines 62-68 and 70-75
ChooseBounds(given, trained) ==
    IF IsNone(given) THEN DerivedBounds(trained[1], trained[2]) ELSE given[1]

\* explicit bounds a caller may pass (already in tenths of a unit)
LambdaBoundsChoices == {None, Some(<<8500, 11500>>)}

TimingBoundsChoices == {None, Some(<<5000, 35000>>)}

\* largest n_suggestions explored
MaxSuggestions == 4

\* lines 40-75: BSFCOptimizer.__init__ on a model whose X_train is set,
\* read after any fit of the same step
Construct(lb, tb, n) ==
    LET training_bounds == TrainingBounds(X_train[1])
    IN  /\ lambda_bounds' = Some(ChooseBounds(lb, training_bounds.lambda))
        /\ timing_bounds' = Some(ChooseBounds(tb, training_bounds.timing))
        /\ n_suggestions' = n
        /\ args' = [lambda_bounds |-> lb, timing_bounds |-> tb, n_suggestions |-> n]
        /\ ret' = [op |-> "__init__", raised |-> "", value |-> <<>>]

\* a caller builds an optimizer
OptConstruct ==
    /\ pc = "opt_new"
    /\ \E lb \in LambdaBoundsChoices, tb \in TimingBoundsChoices,
          n \in 1..MaxSuggestions : Construct(lb, tb, n)
    /\ pc' = "opt_ready"
    /\ UNCHANGED <<binVars, gpVars, mainVars>>

(* Expected improvement.  A predicted std and an EI are far smaller than a  *)
(* hundredth, so a std is held in units of 1e-9 (the floor of line 100 is   *)
(* one such unit) and an EI as <<n, p>>: n units of 1e-9 plus p units of    *)
(* 1e-12, 0 <= p < 1000.                                                    *)

\* the number of 1e-9 in one fixed-point unit
NanoPerUnit == 10 ^ 7

\* line 100: the floor 1e-9
StdFloor == 1

\* line 81: xi = 0.01
Xi == 1

EIZero == <<0, 0>>

\* a * (p / 1000) for a probability p in thousandths, exactly
MulP(a, p) ==
    <<(a \div 1000) * p + ((a % 1000) * p) \div 1000, ((a % 1000) * p) % 1000>>

EIAdd(a, b) == <<a[1] + b[1] + (a[2] + b[2]) \div 1000, (a[2] + b[2]) % 1000>>

EILeq(a, b) == a[1] < b[1] \/ (a[1] = b[1] /\ a[2] <= b[2])

\* scipy.stats.norm.cdf, in thousandths, tabulated at the integer part of Z
NormCdf(z) ==
    CASE z <= -4 -> 0
      [] z = -3 -> 1
      [] z = -2 -> 23
      [] z = -1 -> 159
      [] z = 0 -> 500
      [] z = 1 -> 841
      [] z = 2 -> 977
      [] z = 3 -> 999
      [] OTHER -> 1000

\* scipy.stats.norm.pdf, in thousandths, tabulated at the integer part of Z
NormPdf(z) ==
    CASE z = 0 -> 399
      [] z = 1 \/ z = -1 -> 242
      [] z = 2 \/ z = -2 -> 54
      [] z = 3 \/ z = -3 -> 4
      [] OTHER -> 0

\* np.maximum(std, 1e-9)
FloorStd(std) == IF std >= StdFloor THEN std ELSE StdFloor

\* lines 97-108 for one query point: mean and best_y in fixed-point units,
\* std in units of 1e-9
ExpectedImprovement(mean, std_predicted, best_y, xi) ==
    LET improvement == (best_y - mean - xi) * NanoPerUnit
        std == FloorStd(std_predicted)
        Z == improvement \div std
        ei == EIAdd(MulP(improvement, NormCdf(Z)), MulP(std, NormPdf(Z)))
    IN  IF std < StdFloor THEN EIZero ELSE ei

\* what gp.predict answers at one query point, relative to best_y:
\* (mean - best_y in fixed-point units, std in units of 1e-9)
EIPredictions ==
    { <<d, sd>> : d \in {-100, -1, 0, 100}, sd \in {0, 1, 50000000} }

\* lines 77-108: _expected_improvement on the rows of X
OptExpectedImprovement ==
    /\ pc = "opt_ready"
    /\ \E X \in PredictQueries, best_y \in {SeqMin(y_train[1])} :
       \E pred \in [DOMAIN X -> EIPredictions] :
          LET mean == [i \in DOMAIN X |-> best_y + pred[i][1]]
              std == [i \in DOMAIN X |-> pred[i][2]]
          IN  /\ args' = [X |-> X, best_y |-> best_y, xi |-> Xi,
                          mean |-> mean, std |-> std]
              /\ ret' = [op |-> "_expected_improvement", raised |-> "",
                         value |-> [i \in DOMAIN X |->
                                       ExpectedImprovement(mean[i], std[i], best_y, Xi)]]
    /\ pc' = "opt_done"
    /\ UNCHANGED <<binVars, gpVars, optVars, mainVars>>

\* Python's round(v, d) on a value held in units k times finer than 10^-d:
\* to the nearest multiple of k, ties to the even multiple
RoundHalfEven(v, k) ==
    LET q == v \div k
        r == v % k
    IN  IF 2 * r > k THEN (q + 1) * k
        ELSE IF 2 * r < k THEN q * k
        ELSE (q + (q % 2)) * k

\* round(ei, 6): to the nearest 1e-6, i.e. 1000 units of 1e-9
RoundEI(ei) ==
    LET q == ei[1] \div 1000
        r == (ei[1] % 1000) * 1000 + ei[2]
    IN  IF r > 500000 THEN <<(q + 1) * 1000, 0>>
        ELSE IF r < 500000 THEN <<q * 1000, 0>>
        ELSE <<(q + (q % 2)) * 1000, 0>>

\* the pseudo-random streams explored: np.random is never seeded, so a run
\* may see any of them
Streams == {0, 1}

\* np.random.uniform(lo, hi, n) under stream st: n points of [lo, hi)
Uniform(lo, hi, n, st) ==
    [j \in 1..n |-> lo + ((2 * (j - 1) + st) * (hi - lo)) \div (2 * n)]

\* candidate pool size explored (n_candidates, 1000 by default)
NCandidates == 6

\* lines 175-191: X_all, the candidates of every RPM stacked in order
CandidatePool(rpm_values, n_candidates, st) ==
    LET n_per_rpm == n_candidates \div Len(rpm_values)
        lambdas == Uniform(lambda_bounds[1][1], lambda_bounds[1][2], n_per_rpm, st)
        timings == Uniform(timing_bounds[1][1], timing_bounds[1][2], n_per_rpm, st)
    IN  [k \in 1..(n_per_rpm * Len(rpm_values)) |->
            <<lambdas[((k - 1) % n_per_rpm) + 1],
              timings[((k - 1) % n_per_rpm) + 1],
              rpm_values[((k - 1) \div n_per_rpm) + 1]>>]

\* np.argsort(ei): every ascending order of the indices in S (the order of
\* equal values is not fixed by the sort)
RECURSIVE ArgSorts(_, _)
ArgSorts(ei, S) ==
    IF S = {} THEN {<<>>}
    ELSE UNION { { <<m>> \o r : r \in ArgSorts(ei, S \ {m}) } :
                   m \in {x \in S : \A y \in S : EILeq(ei[x], ei[y])} }

Reverse(q) == [i \in DOMAIN q |-> q[Len(q) + 1 - i]]

\* q[-k:]
LastOf(q, k) == IF k >= Len(q) THEN q ELSE SubSeq(q, Len(q) - k + 1, Len(q))

\* a ranking that forgets to reverse the ascending order
TopIndicesAscending(order, n) == LastOf(order, n * 3)

\* line 197: np.argsort(ei)[-self.n_suggestions * 3:][::-1]
TopIndices(order, n) == Reverse(LastOf(order, n * 3))

\* a loop that never skips a repeated RPM
SkipNever(rpm, seen, n_chosen, n) == FALSE

\* line 210: skip a candidate of an RPM already suggested while fewer than
\* n_suggestions // 2 suggestions have been chosen
Skip(rpm, seen, n_chosen, n) == rpm \in seen /\ n_chosen < n \div 2

\* lines 202-224: the indices of the candidates appended to suggestions
RECURSIVE ChooseLoop(_, _, _, _, _, _)
ChooseLoop(top, X_all, n, k, chosen, seen) ==
    IF k > Len(top) \/ Len(chosen) >= n THEN chosen
    ELSE LET idx == top[k]
             rpm == X_all[idx][3]
         IN  IF Skip(rpm, seen, Len(chosen), n)
             THEN ChooseLoop(top, X_all, n, k + 1, chosen, seen)
             ELSE ChooseLoop(top, X_all, n, k + 1, Append(chosen, idx),
                             seen \cup {rpm})

\* lines 215-222: lambda and timing are held in thousandths, the mean in
\* hundredths, the std in units of 1e-9
Suggestion(x, mean, std, ei) ==
    [rpm |-> RoundHalfEven(x[3], Unit),
     lambda |-> x[1],
     timing |-> RoundHalfEven(x[2], 10),
     predicted_bsfc |-> mean,
     uncertainty |-> RoundHalfEven(std, 100000),
     expected_improvement |-> RoundEI(ei)]

\* what gp.predict answers at one candidate, relative to the current best;
\* equal candidates get equal answers
FindPredictions == { <<-100, 50000000>>, <<0, 50000000>> }

\* lines 157-226: _find_best_experiments.  With fewer candidates than RPM
\* values every RPM gets none, X_all has no rows, and gp.predict (line 94,
\* through the scaler's transform) rejects the empty array with a ValueError
FindBestExperiments(rpm_values, current_best_bsfc, n_candidates) ==
    \E st \in Streams :
    LET X_all == CandidatePool(rpm_values, n_candidates, st)
    IN  IF DOMAIN X_all = {}
        THEN /\ args' = [rpm_values |-> rpm_values,
                         current_best_bsfc |-> current_best_bsfc,
                         n_candidates |-> n_candidates,
                         X_all |-> X_all, mean |-> <<>>, std |-> <<>>,
                         ei |-> <<>>, top_indices |-> <<>>, chosen |-> <<>>]
             /\ ret' = [op |-> "_find_best_experiments", raised |-> "ValueError",
                        value |-> <<>>]
        ELSE
        \E pred \in { f \in [DOMAIN X_all -> FindPredictions] :
                         \A i, j \in DOMAIN X_all :
                             X_all[i] = X_all[j] => f[i] = f[j] } :
        LET mean == [i \in DOMAIN X_all |-> current_best_bsfc + pred[i][1]]
            std == [i \in DOMAIN X_all |-> pred[i][2]]
            ei == [i \in DOMAIN X_all |->
                      ExpectedImprovement(mean[i], std[i], current_best_bsfc, Xi)]
        IN  \E order \in ArgSorts(ei, DOMAIN X_all) :
            LET top_indices == TopIndices(order, n_suggestions)
                chosen == ChooseLoop(top_indices, X_all, n_suggestions, 1, <<>>, {})
            IN  /\ args' = [rpm_values |-> rpm_values,
                            current_best_bsfc |-> current_best_bsfc,
                            n_candidates |-> n_candidates,
                            X_all |-> X_all, mean |-> mean, std |-> std,
                            ei |-> ei, top_indices |-> top_indices, chosen |-> chosen]
                /\ ret' = [op |-> "_find_best_experiments", raised |-> "",
                           value |-> [k \in DOMAIN chosen |->
                                         Suggestion(X_all[chosen[k]], mean[chosen[k]],
                                                    std[chosen[k]], ei[chosen[k]])]]

\* a caller asks for suggestions as optimize does: on the RPM centres of the
\* training data and the best observed BSFC
OptFindBestExperiments ==
    /\ pc = "opt_ready"
    /\ FindBestExperiments(ArrayColumn(X_train[1], 3), SeqMin(y_train[1]), NCandidates)
    /\ pc' = "opt_done"
    /\ UNCHANGED <<binVars, gpVars, optVars, mainVars>>

\* a fitted model, as BSFCGaussianProcess.fit leaves it (lines 61-70)
GpFittedOn(X, y) ==
    /\ X_train = Some(X)
    /\ y_train = Some(y)
    /\ X_scaler = Some(ScalerFit(X, 3))
    /\ y_scaler = Some(ScalerFit(Reshape(y), 1))
    /\ gp_fitted = TRUE
    /\ is_fitted = TRUE

OptInit ==
    /\ pc = "opt_new"
    /\ BinIdle
    /\ \E X \in FitXs, y \in FitYs : Len(X) = Len(y) /\ GpFittedOn(X, y)
    /\ OptIdle
    /\ args = NoArgs
    /\ ret = NoCall
    /\ MainIdle

OptNext == OptConstruct \/ OptExpectedImprovement

SpecOpt == OptInit /\ [][OptNext]_vars

\* an optimizer as main.py builds it (lines 166-171: no explicit bounds) on
\* a fitted model, before any of its methods is called
FindInit ==
    /\ pc = "opt_ready"
    /\ BinIdle
    /\ \E X \in FitXs, y \in FitYs : Len(X) = Len(y) /\ GpFittedOn(X, y)
    /\ lambda_bounds = Some(ChooseBounds(None, TrainingBounds(X_train[1]).lambda))
    /\ timing_bounds = Some(ChooseBounds(None, TrainingBounds(X_train[1]).timing))
    /\ n_suggestions \in 1..MaxSuggestions
    /\ args = NoArgs
    /\ ret = NoCall
    /\ MainIdle

FindNext == OptFindBestExperiments

SpecFind == FindInit /\ [][FindNext]_vars

\* C6: wherever the predicted std is at or below the floor 1e-9, the EI
\* returned is exactly 0, whatever the predicted mean
C6_FlooredStdGivesZeroEI ==
    ret.op = "_expected_improvement" =>
        \A i \in DOMAIN ret.value :
            args.std[i] <= StdFloor => ret.value[i] = EIZero

\* C10: bounds not given are the training extent widened by a tenth of its
\* length on each side, strictly containing it when max > min; bounds given
\* are used unchanged
C10_DerivedBoundsMargin ==
    ret.op = "__init__" =>
        LET tb == TrainingBounds(X_train[1])
            Ok(given, trained, got) ==
                IF IsNone(given)
                THEN /\ got[1] = Fine(trained[1]) - (trained[2] - trained[1])
                     /\ got[2] = Fine(trained[2]) + (trained[2] - trained[1])
                     /\ trained[2] > trained[1] =>
                           got[1] < Fine(trained[1]) /\ got[2] > Fine(trained[2])
                ELSE got = given[1]
        IN  /\ Ok(args.lambda_bounds, tb.lambda, lambda_bounds[1])
            /\ Ok(args.timing_bounds, tb.timing, timing_bounds[1])

\* an optimizer built with derived lambda bounds and given timing bounds on
\* training data whose lambda values differ
C10_Witness ==
    /\ ret.op = "__init__"
    /\ IsNone(args.lambda_bounds)
    /\ ~IsNone(args.timing_bounds)
    /\ TrainingBounds(X_train[1]).lambda[1] < TrainingBounds(X_train[1]).lambda[2]
    /\ lambda_bounds[1][1] < Fine(TrainingBounds(X_train[1]).lambda[1])

\* the RPM bin (centre) of every returned suggestion, and of every ranked
\* candidate
ChosenRpm == [k \in DOMAIN args.chosen |-> args.X_all[args.chosen[k]][3]]

RankedRpm == [k \in DOMAIN args.top_indices |-> args.X_all[args.top_indices[k]][3]]

Distinct(q) == Cardinality({q[k] : k \in DOMAIN q})

CountOf(q, r) == Cardinality({k \in DOMAIN q : q[k] = r})

\* how many entries a list of the ranked candidates can hold when no bin
\* may supply more than cap of them
Fillable(cap) ==
    Cardinality({k \in DOMAIN RankedRpm :
        Cardinality({j \in 1..k : RankedRpm[j] = RankedRpm[k]}) <= cap})

\* C7 as stated: when the ranked candidates allow it, no RPM bin supplies
\* more than half (rounded up) of the returned list, and the list holds
\* suggestions of at least half as many distinct bins as it is long
C7_NoBinDominates ==
    ret.op = "_find_best_experiments" =>
        LET L == Len(ChosenRpm)
            half == (L + 1) \div 2
        IN  (Fillable(half) >= L /\ 2 * Distinct(RankedRpm) >= L) =>
                /\ \A k \in DOMAIN ChosenRpm : CountOf(ChosenRpm, ChosenRpm[k]) <= half
                /\ 2 * Distinct(ChosenRpm) >= L

Min2(a, b) == IF a <= b THEN a ELSE b

\* C7 (amended): the first n_suggestions // 2 suggestions come from pairwise
\* distinct RPM bins, so the list holds at least min(n_suggestions // 2,
\* number of bins among the ranked candidates) distinct bins
C7_FirstHalfDistinct ==
    ret.op = "_find_best_experiments" =>
        LET h == n_suggestions \div 2
        IN  /\ \A i, j \in DOMAIN ChosenRpm :
                  (i < j /\ j <= h) => ChosenRpm[i] # ChosenRpm[j]
            /\ Distinct(ChosenRpm) >= Min2(h, Distinct(RankedRpm))

\* the rule has skipped a candidate of a repeated bin, and one bin still
\* supplies three of the four suggestions
C7_Witness ==
    /\ ret.op = "_find_best_experiments"
    /\ Len(ChosenRpm) = 4
    /\ args.chosen # SubSeq(args.top_indices, 1, 4)
    /\ \E k \in DOMAIN ChosenRpm : CountOf(ChosenRpm, ChosenRpm[k]) = 3

\* C8: at most n_suggestions suggestions are returned, in non-increasing
\* order of expected_improvement
C8_AtMostNSortedByEI ==
    ret.op = "_find_best_experiments" =>
        /\ Len(ret.value) <= n_suggestions
        /\ \A k \in 1..(Len(ret.value) - 1) :
              EILeq(ret.value[k + 1].expected_improvement,
                    ret.value[k].expected_improvement)

\* a full list over two EI values, built after skipping a ranked candidate
C8_Witness ==
    /\ ret.op = "_find_best_experiments"
    /\ Len(ret.value) = n_suggestions
    /\ n_suggestions >= 3
    /\ args.chosen # SubSeq(args.top_indices, 1, n_suggestions)
    /\ ret.value[1].expected_improvement # ret.value[n_suggestions].expected_improvement

----------------------------------------------------------------------------
(* main.py: the pipeline *)

\* main.py line 48
MIN_SAMPLES_PER_BIN == 3

\* main.py line 55
N_SUGGESTIONS == 5

\* a data row; a BSFC of 0 marks an invalid measurement
Row(r, v, b) ==
    [rpm |-> r, lam |-> IF v = 1 THEN 9 ELSE 11,
     timing |-> IF v = 1 THEN 20 ELSE 30, bsfc |-> b]

\* the CSV files the data directory may hold, in sorted order of their names
CsvFiles ==
    << <<Row(1000, 1, 250), Row(1010, 2, 300), Row(1040, 1, 260)>>,
       <<Row(1060, 2, 300), Row(1070, 1, 250), Row(1090, 2, 280)>>,
       <<Row(1110, 1, 240), Row(1120, 2, 300), Row(1140, 2, 290)>>,
       <<Row(1160, 1, 250), Row(1170, 2, 300), Row(1180, 1, 0)>>,
       <<Row(1210, 1, 0)>>,
       <<Row(1260, 1, 250), Row(1270, 1, 290), Row(1290, 1, 270)>> >>

\* data_loader.py lines 64-98: the rows of the files, concatenated in order
RECURSIVE LoadCsvFiles(_, _)
LoadCsvFiles(present, k) ==
    IF k > Len(CsvFiles) THEN <<>>
    ELSE (IF k \in present THEN CsvFiles[k] ELSE <<>>) \o LoadCsvFiles(present, k + 1)

\* data_loader.py lines 101-127: rows whose BSFC is above min_bsfc
RECURSIVE FilterValidData(_, _)
FilterValidData(d, min_bsfc) ==
    IF d = <<>> THEN <<>>
    ELSE (IF Head(d).bsfc > min_bsfc THEN <<Head(d)>> ELSE <<>>)
             \o FilterValidData(Tail(d), min_bsfc)

\* rpm_binning.py lines 118-136: the reductions of an empty array raise
AggregateRaises(b) == b.rpm_centers = <<>>

AggregateBinnedData(b) ==
    [n_bins |-> Len(b.rpm_centers),
     rpm_range |-> <<SeqMin(b.rpm_centers), SeqMax(b.rpm_centers)>>,
     total_samples |-> SumSeq(b.sample_counts),
     lambda_range |-> <<SeqMin(b.lambda_values), SeqMax(b.lambda_values)>>,
     timing_range |-> <<SeqMin(b.timing_values), SeqMax(b.timing_values)>>,
     bsfc_range |-> <<SeqMin(b.bsfc_values), SeqMax(b.bsfc_values)>>]

\* main ends by an exception that nothing catches
MainRaises(exc) ==
    /\ ret' = [op |-> "main", raised |-> exc, value |-> <<>>]
    /\ pc' = "exit"

\* main ends by `return code`
MainReturns(code) ==
    /\ exit_code' = Some(code)
    /\ ret' = [op |-> "main", raised |-> "", value |-> <<code>>]
    /\ pc' = "exit"

\* main.py lines 108-122 with data_loader.py lines 130-147
MainLoad ==
    /\ pc = "main_load"
    /\ \E present \in SUBSET (1..Len(CsvFiles)) :
          IF present = {}
          THEN /\ MainRaises("FileNotFoundError")
               /\ UNCHANGED <<data, exit_code>>
          ELSE /\ data' = LoadCsvFiles(present, 1)
               /\ pc' = "main_filter"
               /\ UNCHANGED <<ret, exit_code>>
    /\ UNCHANGED <<bin_width, rpm_min, rpm_max, min_samples, binned>>
    /\ UNCHANGED <<gpVars, optVars, args>>
    /\ UNCHANGED <<summary, printed, best_bsfc_per_rpm, overall_best,
                   optimal_map, suggestions, result>>

\* main.py lines 125-132
MainFilter ==
    /\ pc = "main_filter"
    /\ data' = FilterValidData(data, 0)
    /\ IF Len(data') = 0
       THEN /\ printed' = Append(printed, "ERROR: No valid data loaded")
            /\ MainReturns(1)
       ELSE /\ pc' = "main_bin"
            /\ UNCHANGED <<printed, ret, exit_code>>
    /\ UNCHANGED <<bin_width, rpm_min, rpm_max, min_samples, binned>>
    /\ UNCHANGED <<gpVars, optVars, args>>
    /\ UNCHANGED <<summary, best_bsfc_per_rpm, overall_best, optimal_map,
                   suggestions, result>>

\* main.py lines 137-145
MainBin ==
    /\ pc = "main_bin"
    /\ binned' = Some(BinByRpm(data, bin_width, None, None, MIN_SAMPLES_PER_BIN))
    /\ pc' = "main_summary"
    /\ UNCHANGED <<data, bin_width, rpm_min, rpm_max, min_samples>>
    /\ UNCHANGED <<gpVars, optVars, args, ret, mainVars>>

\* main.py lines 147-155
MainSummary ==
    /\ pc = "main_summary"
    /\ IF AggregateRaises(binned[1])
       THEN /\ MainRaises("ValueError")
            /\ UNCHANGED <<summary, printed, exit_code>>
       ELSE /\ summary' = Some(AggregateBinnedData(binned[1]))
            /\ IF summary'[1].n_bins < 3
               THEN /\ printed' = Append(printed, "ERROR: Not enough RPM bins")
                    /\ MainReturns(1)
               ELSE /\ pc' = "main_fit"
                    /\ UNCHANGED <<printed, ret, exit_code>>
    /\ UNCHANGED <<binVars, gpVars, optVars, args>>
    /\ UNCHANGED <<best_bsfc_per_rpm, overall_best, optimal_map, suggestions, result>>

\* main.py lines 160-171: fit the model, then build the optimizer on it
MainFit ==
    /\ pc = "main_fit"
    /\ Fit(binned[1].X, binned[1].y)
    /\ pc' = "main_construct"
    /\ UNCHANGED <<binVars, optVars, args, mainVars>>

MainConstruct ==
    /\ pc = "main_construct"
    /\ Construct(None, None, N_SUGGESTIONS)
    /\ pc' = "optimize_baselines"
    /\ UNCHANGED <<binVars, gpVars, mainVars>>

\* number of restarts explored (n_restarts, 10 by default)
NRestarts == 2

\* the point a quarter or three quarters of the way through an interval
Quarter(b, q) == b[1] + (q * (b[2] - b[1])) \div 4

\* lines 139-142: the start points np.random.uniform may draw inside the
\* bounds; np.random is never seeded, so every restart of every run may
\* draw any of them
StartPoints ==
    { <<Quarter(lambda_bounds[1], q), Quarter(timing_bounds[1], q)>> : q \in {1, 3} }

\* lines 129-132: the objective, the surrogate's predicted mean at
\* (lambda, timing, rpm).  It is a fixed function of the fitted model; the
\* surface explored has a local minimum at the lower and at the upper
\* corner of the bounds, equally deep for every other RPM bin
Objective(x, rpm) ==
    IF x[1] = lambda_bounds[1][1] \/ (rpm \div (25 * Unit)) % 4 = 1
    THEN 240 * Unit
    ELSE 250 * Unit

\* lines 144-149: scipy's minimize (L-BFGS-B, deterministic) from x0: the
\* search descends to the local minimum of the half x0 lies in, and stays
\* inside the bounds
Minimize(x0, rpm) ==
    LET x == IF 2 * x0[1] < lambda_bounds[1][1] + lambda_bounds[1][2]
             THEN <<lambda_bounds[1][1], timing_bounds[1][1]>>
             ELSE <<lambda_bounds[1][2], timing_bounds[1][2]>>
    IN  [x |-> x, fun |-> Objective(x, rpm)]

\* a restart loop that keeps the latest result, whatever its value
RECURSIVE RestartLoopKeepLast(_, _, _, _)
RestartLoopKeepLast(results, i, best_result, best_value) ==
    IF i > Len(results) THEN [best_result |-> best_result, best_value |-> best_value]
    ELSE RestartLoopKeepLast(results, i + 1, Some(results[i]), Some(results[i].fun))

\* optimizer.py lines 134-153: the restart loop; best_value None is np.inf
RECURSIVE RestartLoop(_, _, _, _)
RestartLoop(results, i, best_result, best_value) ==
    IF i > Len(results) THEN [best_result |-> best_result, best_value |-> best_value]
    ELSE IF IsNone(best_value) \/ results[i].fun < best_value[1]
         THEN RestartLoop(results, i + 1, Some(results[i]), Some(results[i].fun))
         ELSE RestartLoop(results, i + 1, best_result, best_value)

\* optimizer.py lines 110-155: _optimize_for_rpm, given what the restarts found
OptimizeForRpm(results) ==
    LET final == RestartLoop(results, 1, None, None)
    IN  IF IsNone(final.best_result)
        THEN [raised |-> "AttributeError", value |-> <<>>]
        ELSE [raised |-> "",
              value |-> <<final.best_result[1].x[1], final.best_result[1].x[2],
                          final.best_value[1]>>]

\* an assignment that is lost
DictSetLost(d, key, value) == d

\* d[key] = value
DictSet(d, key, value) ==
    [k \in (DOMAIN d) \cup {key} |-> IF k = key THEN value ELSE d[k]]

\* optimizer.py lines 238-248: the baselines
OptimizeBaselines ==
    /\ pc = "optimize_baselines"
    /\ LET rpm_values == binned[1].rpm_centers
       IN  best_bsfc_per_rpm' =
               [r \in {rpm_values[k] : k \in DOMAIN rpm_values} |->
                   LET last == CHOOSE k \in DOMAIN rpm_values :
                                  /\ rpm_values[k] = r
                                  /\ \A j \in DOMAIN rpm_values :
                                        rpm_values[j] = r => j <= k
                   IN  binned[1].bsfc_values[last]]
    /\ overall_best' = Some(SeqMin(binned[1].bsfc_values))
    /\ optimal_map' = EmptyDict
    /\ pc' = "optimize_rpm"
    /\ UNCHANGED <<binVars, gpVars, optVars, args, ret>>
    /\ UNCHANGED <<summary, printed, exit_code, suggestions, result>>

\* optimizer.py lines 253-264: one pass of the loop over the RPM centres
OptimizePerRpm ==
    /\ pc = "optimize_rpm"
    /\ LET rpm_values == binned[1].rpm_centers
           k == Cardinality(DOMAIN optimal_map) + 1
       IN  \E starts \in [1..NRestarts -> StartPoints] :
               LET results == [i \in DOMAIN starts |-> Minimize(starts[i], rpm_values[k])]
                   found == OptimizeForRpm(results)
               IN  /\ args' = [rpm |-> rpm_values[k],
                               best_bsfc |-> best_bsfc_per_rpm[rpm_values[k]],
                               n_restarts |-> NRestarts,
                               starts |-> starts, results |-> results]
                   /\ IF found.raised # ""
                      THEN /\ MainRaises(found.raised)
                           /\ UNCHANGED optimal_map
                      ELSE /\ optimal_map' =
                                  DictSet(optimal_map, rpm_values[k],
                                          [lambda |-> found.value[1],
                                           timing |-> RoundHalfEven(found.value[2], 10),
                                           predicted_bsfc |-> found.value[3]])
                           /\ pc' = IF k = Len(rpm_values) THEN "optimize_rank"
                                                           ELSE "optimize_rpm"
                           /\ ret' = [op |-> "_optimize_for_rpm", raised |-> "",
                                      value |-> found.value]
    /\ UNCHANGED <<binVars, gpVars, optVars>>
    /\ UNCHANGED <<summary, printed, exit_code, best_bsfc_per_rpm, overall_best,
                   suggestions, result>>

\* candidate pool size explored in the pipeline
MainCandidates == 3

\* optimizer.py lines 266-271: the ranking
OptimizeRank ==
    /\ pc = "optimize_rank"
    /\ FindBestExperiments(binned[1].rpm_centers, overall_best[1], MainCandidates)
    /\ IF ret'.raised # ""
       THEN /\ pc' = "exit"
            /\ UNCHANGED suggestions
       ELSE /\ suggestions' = Some(ret'.value)
            /\ pc' = "optimize_assemble"
    /\ UNCHANGED <<binVars, gpVars, optVars>>
    /\ UNCHANGED <<summary, printed, exit_code, best_bsfc_per_rpm, overall_best,
                   optimal_map, result>>

\* optimizer.py lines 273-280: the result; get_training_bounds raises on a
\* model without training data
OptimizeAssemble ==
    /\ pc = "optimize_assemble"
    /\ IF IsNone(X_train)
       THEN /\ MainRaises("RuntimeError")
            /\ UNCHANGED result
       ELSE /\ result' = Some([optimal_map |-> optimal_map,
                               suggested_experiments |-> suggestions[1],
                               training_bounds |-> TrainingBounds(X_train[1]),
                               n_training_samples |-> Len(binned[1].y),
                               best_bsfc_per_rpm |-> best_bsfc_per_rpm,
                               best_bsfc_overall |-> overall_best[1]])
            /\ ret' = [op |-> "optimize", raised |-> "", value |-> <<>>]
            /\ pc' = "main_export"
    /\ UNCHANGED <<binVars, gpVars, optVars, args>>
    /\ UNCHANGED <<summary, printed, exit_code, best_bsfc_per_rpm, overall_best,
                   optimal_map, suggestions>>

\* main.py lines 178-205: export and return 0
MainExport ==
    /\ pc = "main_export"
    /\ MainReturns(0)
    /\ UNCHANGED <<binVars, gpVars, optVars, args>>
    /\ UNCHANGED <<summary, printed, best_bsfc_per_rpm, overall_best,
                   optimal_map, suggestions, result>>

\* main is started with a bin width (--bin-width, RPM_BIN_WIDTH by default)
MainInit ==
    /\ pc = "main_load"
    /\ data = <<>>
    /\ bin_width \in BinWidths
    /\ rpm_min = None
    /\ rpm_max = None
    /\ min_samples = MIN_SAMPLES_PER_BIN
    /\ binned = None
    /\ GpConstructed
    /\ OptIdle
    /\ args = NoArgs
    /\ ret = NoCall
    /\ MainIdle

MainNext ==
    \/ MainLoad
    \/ MainFilter
    \/ MainBin
    \/ MainSummary
    \/ MainFit
    \/ MainConstruct
    \/ OptimizeBaselines
    \/ OptimizePerRpm
    \/ OptimizeRank
    \/ OptimizeAssemble
    \/ MainExport

SpecMain == MainInit /\ [][MainNext]_vars

\* fewer than 3 bins were retained and the run has ended
FewBinsRunEnded ==
    /\ pc = "exit"
    /\ ~IsNone(binned)
    /\ Len(binned[1].rpm_centers) < 3

\* C9: a run whose binning retains fewer than 3 bins (zero included) ends by
\* printing the 'Not enough RPM bins' error and returning 1, with neither
\* the model fit nor optimize started
C9_TooFewBinsReported ==
    FewBinsRunEnded =>
        /\ exit_code = Some(1)
        /\ printed = <<"ERROR: Not enough RPM bins">>
        /\ IsNone(X_train) /\ ~is_fitted
        /\ best_bsfc_per_rpm = EmptyDict /\ IsNone(result)

\* the same for runs that retain one or two bins
C9_OneOrTwoBinsReported ==
    (FewBinsRunEnded /\ binned[1].rpm_centers # <<>>) =>
        /\ exit_code = Some(1)
        /\ printed = <<"ERROR: Not enough RPM bins">>
        /\ IsNone(X_train) /\ ~is_fitted

\* fit and optimize are not started in a run that retains fewer than 3 bins
C9_NoFitOnFewBins ==
    (~IsNone(binned) /\ Len(binned[1].rpm_centers) < 3) =>
        /\ IsNone(X_train) /\ ~is_fitted
        /\ IsNone(lambda_bounds) /\ IsNone(result)

\* the positions inside optimize
OptimizeStages ==
    {"optimize_baselines", "optimize_rpm", "optimize_rank", "optimize_assemble"}

\* the retained bin centres
RetainedCentres == {binned[1].rpm_centers[k] : k \in DOMAIN binned[1].rpm_centers}

\* one step of a run keeps to the order of the stages of optimize and
\* repeats none of them
StageOrderStep ==
    /\ pc' = "optimize_baselines" => pc = "main_construct"
    /\ pc = "optimize_baselines" => pc' = "optimize_rpm"
    /\ pc = "optimize_rpm" =>
          /\ pc' \in {"optimize_rpm", "optimize_rank", "exit"}
          /\ pc' # "exit" =>
                \E r \in RetainedCentres \ DOMAIN optimal_map :
                    DOMAIN optimal_map' = DOMAIN optimal_map \cup {r}
          /\ pc' = "optimize_rank" <=> DOMAIN optimal_map' = RetainedCentres
    /\ pc # "optimize_rpm" => (optimal_map' = optimal_map \/ pc = "optimize_baselines")
    /\ pc = "optimize_rank" => pc' \in {"optimize_assemble", "exit"}
    /\ pc' = "optimize_rank" => pc = "optimize_rpm"
    /\ suggestions' # suggestions => pc = "optimize_rank" /\ pc' = "optimize_assemble"
    /\ pc = "optimize_assemble" => pc' \in {"main_export", "exit"}
    /\ pc' = "optimize_assemble" => pc = "optimize_rank"

\* one step of a run builds a result only at the end of a complete optimize,
\* and a stage that raises ends the run without one
ResultStep ==
    /\ result' # result =>
          /\ pc = "optimize_assemble" /\ pc' = "main_export"
          /\ IsNone(result)
          /\ DOMAIN optimal_map = RetainedCentres
          /\ ~IsNone(suggestions)
          /\ DOMAIN best_bsfc_per_rpm = RetainedCentres
          /\ result'[1].optimal_map = optimal_map
          /\ result'[1].suggested_experiments = suggestions[1]
    /\ (pc \in OptimizeStages /\ pc' = "exit") =>
          /\ ret'.raised # ""
          /\ IsNone(result')
          /\ IsNone(exit_code')
    /\ pc = "exit" => UNCHANGED vars

\* C12: optimize runs baselines, the minimisation of every bin centre, the
\* ranking and the assembly in this order; a result is built only after all
\* centres are minimised and the ranking is done; a stage that fails ends
\* the run with no result, and no stage is run again
C12_StagesInOrderNoRetry == [][StageOrderStep /\ ResultStep]_vars

\* the ranking has failed after the minimisation of every centre: the run
\* has ended without a result
C12_Witness ==
    /\ pc = "exit"
    /\ ret.op = "_find_best_experiments"
    /\ ret.raised = "ValueError"
    /\ DOMAIN optimal_map = RetainedCentres
    /\ IsNone(result)

\* the optimal map of the run in which every restart starts at the same
\* point, the first quarter of the bounds
ReferenceMap ==
    LET x0 == <<Quarter(lambda_bounds[1], 1), Quarter(timing_bounds[1], 1)>>
    IN  [r \in RetainedCentres |->
            LET found == OptimizeForRpm([i \in 1..NRestarts |-> Minimize(x0, r)])
            IN  [lambda |-> found.value[1],
                 timing |-> RoundHalfEven(found.value[2], 10),
                 predicted_bsfc |-> found.value[3]]]

\* C13: the optimal map is determined by the input samples and the
\* configuration: every run that completes the minimisation on an input
\* produces the map that the reference run produces on it
C13_OptimalMapReproducible ==
    (~IsNone(binned) /\ ~IsNone(lambda_bounds) /\ DOMAIN optimal_map = RetainedCentres)
        => optimal_map = ReferenceMap

\* C14: best_bsfc_per_rpm maps every retained bin centre to the mean BSFC of
\* that bin, best_bsfc_overall is the least of these values, and the EI of
\* every candidate of every RPM is computed against best_bsfc_overall
C14_BaselinesAndOverallBest ==
    (~IsNone(suggestions) /\ ret.op \in {"_find_best_experiments", "optimize", "main"}) =>
        LET b == binned[1]
        IN  /\ DOMAIN best_bsfc_per_rpm = RetainedCentres
            /\ \A i \in DOMAIN b.rpm_centers :
                  /\ best_bsfc_per_rpm[b.rpm_centers[i]] = b.bsfc_values[i]
                  /\ IsMean(b.bsfc_values[i], Column(OwnSamples(b.rpm_centers[i]), "bsfc"))
                  /\ overall_best[1] <= best_bsfc_per_rpm[b.rpm_centers[i]]
            /\ \E r \in RetainedCentres : overall_best[1] = best_bsfc_per_rpm[r]
            /\ args.current_best_bsfc = overall_best[1]
            /\ \A i \in DOMAIN args.X_all :
                  /\ args.X_all[i][3] \in RetainedCentres
                  /\ args.ei[i] = ExpectedImprovement(args.mean[i], args.std[i],
                                                      overall_best[1], Xi)
            /\ ~IsNone(result) =>
                  /\ result[1].best_bsfc_per_rpm = best_bsfc_per_rpm
                  /\ result[1].best_bsfc_overall = overall_best[1]

\* a result whose overall best is not the first bin's mean, with a ranked
\* candidate of positive EI in a bin whose own mean is above the overall best
C14_Witness ==
    /\ ~IsNone(result)
    /\ result[1].best_bsfc_overall < binned[1].bsfc_values[1]
    /\ \E i \in DOMAIN args.X_all :
          /\ best_bsfc_per_rpm[args.X_all[i][3]] > overall_best[1]
          /\ args.ei[i] # EIZero

\* C15: a fit call that fails (X and y of different lengths) leaves the
\* fitted flag, the cached training X and y and the scalers as they were
C15_FailedFitChangesNothing ==
    [][(ret'.op = "fit" /\ ret'.raised # "") => UNCHANGED gpVars]_vars

----------------------------------------------------------------------------
(* _optimize_for_rpm called on its own *)

\* a caller minimises for one RPM centre of the training data with
\* n_restarts of its choice (lines 110-155)
OptOptimizeForRpm ==
    /\ pc = "opt_ready"
    /\ \E k \in DOMAIN X_train[1], n_restarts \in 1..NRestarts :
       \E starts \in [1..n_restarts -> StartPoints] :
          LET rpm == X_train[1][k][3]
              results == [i \in DOMAIN starts |-> Minimize(starts[i], rpm)]
              found == OptimizeForRpm(results)
          IN  /\ args' = [rpm |-> rpm, best_bsfc |-> y_train[1][k],
                          n_restarts |-> n_restarts,
                          starts |-> starts, results |-> results]
              /\ ret' = [op |-> "_optimize_for_rpm", raised |-> found.raised,
                         value |-> found.value]
    /\ pc' = "opt_done"
    /\ UNCHANGED <<binVars, gpVars, optVars, mainVars>>

RpmNext == OptOptimizeForRpm

SpecRpm == FindInit /\ [][RpmNext]_vars

\* the orders the restarts of the last call could have run in
RECURSIVE Orders(_)
Orders(S) ==
    IF S = {} THEN {<<>>}
    ELSE UNION { { <<m>> \o r : r \in Orders(S \ {m}) } : m \in S }

\* C16: _optimize_for_rpm returns, and what it returns is the point and the
\* value of a restart whose value is at most that of every restart; run in
\* any other order the restarts give the same value
C16_BestRestartReturned ==
    ret.op = "_optimize_for_rpm" =>
        /\ ret.raised = ""
        /\ \E i \in DOMAIN args.results :
              /\ args.results[i].x = <<ret.value[1], ret.value[2]>>
              /\ args.results[i].fun = ret.value[3]
        /\ \A j \in DOMAIN args.results : ret.value[3] <= args.results[j].fun
        /\ \A o \in Orders(DOMAIN args.results) :
              LET again == OptimizeForRpm([i \in DOMAIN o |-> args.results[o[i]]])
              IN  /\ again.raised = ""
                  /\ again.value[3] = ret.value[3]

\* two restarts, the second strictly better than the first, and the second
\* is returned
C16_Witness ==
    /\ ret.op = "_optimize_for_rpm"
    /\ args.n_restarts = 2
    /\ args.results[2].fun < args.results[1].fun
    /\ ret.value = <<args.results[2].x[1], args.results[2].x[2], args.results[2].fun>>

\* C17: every optimal lambda and optimal timing recorded in the optimal map
\* of the result lies within lambda_bounds and timing_bounds (inclusive);
\* every local search result does (Minimize returns points of the bounds)
C17_OptimalMapWithinBounds ==
    ~IsNone(result) =>
        \A r \in DOMAIN result[1].optimal_map :
            LET o == result[1].optimal_map[r]
            IN  /\ lambda_bounds[1][1] <= o.lambda /\ o.lambda <= lambda_bounds[1][2]
                /\ timing_bounds[1][1] <= o.timing /\ o.timing <= timing_bounds[1][2]

\* the RPM bin centres of the training data
TrainingCentres == {X_train[1][k][3] : k \in DOMAIN X_train[1]}

\* C18: the rpm of every suggestion returned by _find_best_experiments is
\* one of the RPM bin centres of the training data
C18_SuggestionRpmIsCentre ==
    (ret.op = "_find_best_experiments" /\ ret.raised = "") =>
        \A k \in DOMAIN ret.value : ret.value[k].rpm \in TrainingCentres

\* C19: from a pool of at least n_suggestions candidates
\* _find_best_experiments returns exactly n_suggestions suggestions
C19_ExactlyNSuggestions ==
    (/\ ret.op = "_find_best_experiments"
     /\ ret.raised = ""
     /\ Len(args.X_all) >= n_suggestions) => Len(ret.value) = n_suggestions
====
